---- MODULE Spec2Model ----
(***************************************************************************)
(* markov::Chain<T> (src/src/lib.rs): a first-order Markov chain over      *)
(* tokens.  `map` sends every known token to its table of successor        *)
(* counts, `feed` trains it, `generate` / `generate_from_token` walk it    *)
(* with a weighted random draw per step (States::next).                    *)
(*                                                                         *)
(* feed is one atomic step.  A walk is one step per loop iteration, since  *)
(* every iteration makes its own random draw and the loop need not end.    *)
(***************************************************************************)
EXTENDS Integers, Sequences, FiniteSets, Bags, TLC

VARIABLES
    map,        \* Chain.map : token -> (successor -> count)
    start,      \* Chain.start
    end,        \* Chain.end
    pc,         \* "idle" | "walk" | "done" | "panic" : position of the current call
    msg,        \* the panic message of a failed call, "" otherwise
    op,         \* the last public method called
    arg,        \* the argument of the last feed, <<>> otherwise
    seed,       \* the argument of the last generate_from_token, NoToken otherwise
    curs,       \* local `curs` of the walk
    ret,        \* local `ret` of the walk; the returned Vec once pc = "done"
    overflow,   \* the walk pushed more than MaxWalk tokens: ret is no longer recorded
    fed         \* history: the bag of all arguments feed was called with

vars == <<map, start, end, pc, msg, op, arg, seed, curs, ret, overflow, fed>>

(***************************************************************************)
(* Bounds and input domains                                                *)
(***************************************************************************)
MaxFeeds == 2       \* feed calls in one run
MaxWalk  == 4       \* pushes onto ret that are recorded

Tokens == {0, 3, 5, 10, 12, 100}      \* the values of the tests (uint)
StartValues == {0}
EndValues == {100, 0}                 \* new(0, 100) as in the tests, and new(0, 0)
SingleTokens == {0, 5, 100}           \* start, an ordinary token, end
PairTokens == {5, 100}
ExampleFeeds == {<<3, 5, 10>>, <<5, 12>>}
FeedInputs ==
    {<<>>} \cup {<<a>> : a \in SingleTokens}
           \cup {<<a, b>> : a \in PairTokens, b \in PairTokens}
           \cup ExampleFeeds
SeedInputs == {0, 5, 12, 100}         \* start, a token fed often, one fed seldom, end
NoToken == -1
Unreachable == -2

(***************************************************************************)
(* HashMap<Rc<T>, uint> as States<T>                                       *)
(***************************************************************************)
EmptyTable == [t \in {} |-> 0]

Range(s) == {s[i] : i \in 1..Len(s)}

\* add that overwrites an occupied entry with 1 instead of incrementing it
addWithoutIncrement(tbl, token) ==
    [k \in DOMAIN tbl \cup {token} |-> IF k = token THEN 1 ELSE tbl[k]]

\* add that starts a vacant entry at 0
addInsertsZero(tbl, token) ==
    IF token \in DOMAIN tbl
    THEN [tbl EXCEPT ![token] = @ + 1]
    ELSE [k \in DOMAIN tbl \cup {token} |-> IF k = token THEN 0 ELSE tbl[k]]

\* States::add : insert with 1, or increment
add(tbl, token) ==
    IF token \in DOMAIN tbl
    THEN [tbl EXCEPT ![token] = @ + 1]
    ELSE [k \in DOMAIN tbl \cup {token} |-> IF k = token THEN 1 ELSE tbl[k]]

\* first loop of States::next : the sum of all counts
RECURSIVE sumOver(_, _)
sumOver(tbl, keys) ==
    IF keys = {} THEN 0
    ELSE LET k == CHOOSE x \in keys : TRUE
         IN  tbl[k] + sumOver(tbl, keys \ {k})

sum(tbl) == sumOver(tbl, DOMAIN tbl)

\* the orders in which HashMap::iter may yield the entries of a table
RECURSIVE Orders(_)
Orders(keys) ==
    IF keys = {} THEN {<<>>}
    ELSE UNION {{<<k>> \o o : o \in Orders(keys \ {k})} : k \in keys}

\* a scan that compares with `sum >= cap` instead of `sum > cap`
RECURSIVE scanInclusive(_, _, _, _, _)
scanInclusive(tbl, order, cap, i, acc) ==
    IF i > Len(order) THEN Unreachable
    ELSE LET s == acc + tbl[order[i]]
         IN  IF s >= cap THEN order[i] ELSE scanInclusive(tbl, order, cap, i + 1, s)

\* second loop of States::next, from entry i with running sum acc
RECURSIVE scan(_, _, _, _, _)
scan(tbl, order, cap, i, acc) ==
    IF i > Len(order) THEN Unreachable
    ELSE LET s == acc + tbl[order[i]]
         IN  IF s > cap THEN order[i] ELSE scan(tbl, order, cap, i + 1, s)

\* States::next once gen_range(0, sum) has returned cap
next(tbl, order, cap) == scan(tbl, order, cap, 1, 0)

(***************************************************************************)
(* Chain<T>                                                                *)
(***************************************************************************)
\* new without map.insert(end.clone(), HashMap::new())
newWithoutEnd(s, e) == [k \in {s} |-> EmptyTable]

\* Chain::new : the map holds start and end, both with an empty table
new(s, e) == [k \in {s, e} |-> EmptyTable]

\* a closure that inserts without the contains_key test: a fed key is reset
internResets(m, tokens) ==
    [k \in DOMAIN m \cup Range(tokens) |->
        IF k \in Range(tokens) THEN EmptyTable ELSE m[k]]

\* a closure that never inserts
internNothing(m, tokens) == m

\* the closure of feed: every token not yet a key gets an empty table
intern(m, tokens) ==
    [k \in DOMAIN m \cup Range(tokens) |->
        IF k \in DOMAIN m THEN m[k] ELSE EmptyTable]

\* toks without the final toks.push(self.end.clone())
toksWithoutEnd(s, e, tokens) == <<s>> \o tokens

\* toks without the first toks.push(self.start.clone())
toksWithoutStart(s, e, tokens) == tokens \o <<e>>

\* toks : the fed tokens between start and end
toks(s, e, tokens) == <<s>> \o tokens \o <<e>>

\* for p in toks.windows(2) { self.map[p[0]].add(p[1]) }, from window i
RECURSIVE windows(_, _, _)
windows(m, t, i) ==
    IF i >= Len(t) THEN m
    ELSE windows([m EXCEPT ![t[i]] = add(@, t[i + 1])], t, i + 1)

\* feed without the early return on an empty Vec
feedWithoutEarlyReturn(m, s, e, tokens) ==
    windows(intern(m, tokens), toks(s, e, tokens), 1)

\* Chain::feed
feed(m, s, e, tokens) ==
    IF Len(tokens) = 0 THEN m
    ELSE windows(intern(m, tokens), toks(s, e, tokens), 1)

\* a loop body that pushes curs before advancing it
bodyPushesCurrent(m, c, r, order, cap) ==
    LET n == next(m[c], order, cap)
    IN  [map |-> m, curs |-> n, ret |-> Append(r, c)]

\* a loop body that records the transition it takes, as feed does
bodyRecords(m, c, r, order, cap) ==
    LET n == next(m[c], order, cap)
    IN  [map |-> [m EXCEPT ![c] = add(@, n)], curs |-> n, ret |-> Append(r, n)]

\* the body of the while loop of generate / generate_from_token
body(m, c, r, order, cap) ==
    LET n == next(m[c], order, cap)
    IN  [map |-> m, curs |-> n, ret |-> Append(r, n)]

\* a return without ret.pop()
popNothing(r) == r

\* a return that drops the first element of ret instead of the last
popFirst(r) == IF r = <<>> THEN r ELSE SubSeq(r, 2, Len(r))

\* ret.pop()
pop(r) == IF r = <<>> THEN r ELSE SubSeq(r, 1, Len(r) - 1)

(***************************************************************************)
(* The state machine                                                       *)
(***************************************************************************)
Init ==
    /\ start \in StartValues
    /\ end \in EndValues
    /\ map = new(start, end)
    /\ pc = "idle"
    /\ msg = ""
    /\ op = "new"
    /\ arg = <<>>
    /\ seed = NoToken
    /\ curs = NoToken
    /\ ret = <<>>
    /\ overflow = FALSE
    /\ fed = EmptyBag

Callable == pc \in {"idle", "done"}

Feed(tokens) ==
    /\ Callable
    /\ BagCardinality(fed) < MaxFeeds
    /\ map' = feed(map, start, end, tokens)
    /\ fed' = fed (+) SetToBag({tokens})
    /\ pc' = "idle"
    /\ op' = "feed"
    /\ arg' = tokens
    /\ seed' = NoToken
    /\ curs' = NoToken
    /\ ret' = <<>>
    /\ overflow' = FALSE
    /\ UNCHANGED <<start, end, msg>>

Generate ==
    /\ Callable
    /\ pc' = "walk"
    /\ op' = "generate"
    /\ arg' = <<>>
    /\ seed' = NoToken
    /\ ret' = <<>>
    /\ curs' = start
    /\ overflow' = FALSE
    /\ UNCHANGED <<map, start, end, msg, fed>>

GenerateFromToken(token) ==
    /\ Callable
    /\ pc' = "walk"
    /\ op' = "generate_from_token"
    /\ arg' = <<>>
    /\ seed' = token
    /\ ret' = <<token>>
    /\ curs' = token
    /\ overflow' = FALSE
    /\ UNCHANGED <<map, start, end, msg, fed>>

\* one iteration of the loop: the draw selects b
Sample(b) ==
    /\ pc = "walk"
    /\ curs # end
    /\ curs \in DOMAIN map
    /\ sum(map[curs]) > 0
    /\ \E order \in Orders(DOMAIN map[curs]), cap \in 0..(sum(map[curs]) - 1) :
          LET r == body(map, curs, ret, order, cap)
          IN  /\ r.curs = b
              /\ map' = r.map
              /\ curs' = r.curs
              /\ ret' = IF Len(r.ret) <= MaxWalk THEN r.ret ELSE ret
              /\ overflow' = (overflow \/ Len(r.ret) > MaxWalk)
    /\ UNCHANGED <<start, end, pc, msg, op, arg, seed, fed>>

\* self.map[curs] on a token that is no key: Index panics
IndexPanic ==
    /\ pc = "walk"
    /\ curs # end
    /\ curs \notin DOMAIN map
    /\ pc' = "panic"
    /\ msg' = "no entry found for key"
    /\ UNCHANGED <<map, start, end, op, arg, seed, curs, ret, overflow, fed>>

\* next() on an empty table: gen_range(0, 0) fails its assertion low < high
RangePanic ==
    /\ pc = "walk"
    /\ curs # end
    /\ curs \in DOMAIN map
    /\ sum(map[curs]) = 0
    /\ pc' = "panic"
    /\ msg' = "Rng.gen_range called with low >= high"
    /\ UNCHANGED <<map, start, end, op, arg, seed, curs, ret, overflow, fed>>

\* curs = end: the loop ends, ret.pop(), ret is returned
Return ==
    /\ pc = "walk"
    /\ curs = end
    /\ ret' = IF overflow THEN ret ELSE pop(ret)
    /\ pc' = "done"
    /\ UNCHANGED <<map, start, end, msg, op, arg, seed, curs, overflow, fed>>

Next ==
    \/ \E tokens \in FeedInputs : Feed(tokens)
    \/ Generate
    \/ \E token \in SeedInputs : GenerateFromToken(token)
    \/ \E b \in Tokens : Sample(b)
    \/ IndexPanic
    \/ RangePanic
    \/ Return

Spec == Init /\ [][Next]_vars

(***************************************************************************)
(* Vocabulary of the properties                                            *)
(***************************************************************************)
\* the count of b in a's table, 0 when a is no key or b is absent
Count(m, a, b) == IF a \in DOMAIN m /\ b \in DOMAIN m[a] THEN m[a][b] ELSE 0

\* every adjacent pair of w is a transition with a positive count
IsPath(m, w) == \A i \in 1..(Len(w) - 1) : Count(m, w[i], w[i + 1]) > 0

\* the arguments of the non-empty feed calls so far
FedSeqs == {s \in BagToSet(fed) : s # <<>>}

\* a directly follows b somewhere in a fed sequence wrapped in start .. end
Adjacent(a, b) ==
    \E s \in FedSeqs :
        LET w == <<start>> \o s \o <<end>>
        IN  \E i \in 1..(Len(w) - 1) : w[i] = a /\ w[i + 1] = b

\* the call `name` has returned and its whole result is in ret
Returned(name) == pc = "done" /\ op = name /\ ~overflow

ExampleFed == SetToBag(ExampleFeeds)
ExampleResults == {<<3, 5, 10>>, <<3, 5, 12>>, <<5, 10>>, <<5, 12>>}

(***************************************************************************)
(* C1  Whatever was fed, a sequence [x1..xn] returned by generate() is a   *)
(* path of observed transitions: start->x1, xi->xi+1 and xn->end all have  *)
(* a positive count and were adjacent in a fed, wrapped sequence (an       *)
(* empty result with start # end is the single transition start->end).     *)
(* After feed([3,5,10]) and feed([5,12]) on new(0, 100) the result is one  *)
(* of [3,5,10], [3,5,12], [5,10], [5,12].                                  *)
(***************************************************************************)
GenerateReturnsObservedPath ==
    Returned("generate") =>
        LET w == <<start>> \o ret \o <<end>>
        IN  /\ (ret # <<>> \/ start # end) =>
                /\ IsPath(map, w)
                /\ \A i \in 1..(Len(w) - 1) : Adjacent(w[i], w[i + 1])
            /\ (fed = ExampleFed /\ start = 0 /\ end = 100) => ret \in ExampleResults

GenerateReturnsObservedPathWitness ==
    /\ Returned("generate")
    /\ fed = ExampleFed /\ start = 0 /\ end = 100
    /\ ret = <<3, 5, 12>>

(***************************************************************************)
(* C2  For every seed that is a key of the map, start and end included,    *)
(* generate_from_token(seed) returns a sequence whose first element is     *)
(* the seed, followed by a walk of observed transitions up to, and         *)
(* without, the sampled end.  Stated for a chain whose start and end       *)
(* differ and that was fed something non-empty.                            *)
(***************************************************************************)
SeededWalkStartsWithSeed ==
    (/\ Returned("generate_from_token") /\ seed \in DOMAIN map
     /\ FedSeqs # {} /\ start # end) =>
        /\ ret # <<>>
        /\ ret[1] = seed
        /\ IsPath(map, ret \o <<end>>)

(***************************************************************************)
(* C3  generate_from_token(seed) with a seed that is no key of the map     *)
(* ends with an error value handed to the caller, never with a crash, and  *)
(* leaves the chain as it was.                                             *)
(***************************************************************************)
UnknownSeedIsCatchable ==
    (op = "generate_from_token" /\ seed \notin DOMAIN map) => pc # "panic"

(***************************************************************************)
(* C4  On a chain that was only constructed, start and end are keys with   *)
(* empty tables and generate() returns the empty sequence at once: it      *)
(* does not sample and does not fail.                                      *)
(***************************************************************************)
FreshChainGeneratesEmpty ==
    fed = EmptyBag =>
        /\ DOMAIN map = {start, end}
        /\ map[start] = EmptyTable /\ map[end] = EmptyTable
        /\ op = "generate" => /\ pc # "panic"
                              /\ ret = <<>>

(***************************************************************************)
(* C5  feed of an empty sequence is a no-op in every chain state: no       *)
(* failure, no new key, no changed count (no start->end transition is      *)
(* recorded), so what generate() can return is unchanged.                  *)
(***************************************************************************)
FeedEmptyIsNoOp ==
    [][(fed' = fed (+) SetToBag({<<>>})) =>
          /\ map' = map /\ start' = start /\ end' = end
          /\ pc' = "idle" /\ msg' = msg]_vars

FeedEmptyIsNoOpWitness ==
    /\ op = "feed" /\ arg = <<>>
    /\ FedSeqs # {}
    /\ Count(map, start, end) = 0

(***************************************************************************)
(* C6  Whatever was fed, sequences holding the end or start value          *)
(* included, no element of the result of generate() equals end.            *)
(***************************************************************************)
GenerateExcludesEnd ==
    Returned("generate") => \A i \in 1..Len(ret) : ret[i] # end

GenerateExcludesEndWitness ==
    /\ Returned("generate")
    /\ ret # <<>>
    /\ \E s \in FedSeqs : end \in Range(s)

\* no table offers a choice: every key has at most one successor
Unbranching == \A k \in DOMAIN map : Cardinality(DOMAIN map[k]) <= 1

(***************************************************************************)
(* C8  A chain fed exactly one sequence, a single unbranching path,        *)
(* makes generate() deterministic: it returns exactly the fed sequence.    *)
(* Stated first as claimed, on a chain whose start and end differ.         *)
(***************************************************************************)
SingleFeedIsReproduced ==
    (BagCardinality(fed) = 1 /\ Unbranching /\ Returned("generate") /\ start # end) =>
        ret \in BagToSet(fed)

\* C8, for a chain whose start and end differ and a non-empty fed sequence that
\* does not hold the end token: generate() returns exactly the fed sequence
SinglePathIsReproduced ==
    (/\ BagCardinality(fed) = 1 /\ Unbranching /\ Returned("generate")
     /\ start # end
     /\ \A s \in BagToSet(fed) : s # <<>> /\ end \notin Range(s)) =>
        ret \in BagToSet(fed)

SinglePathIsReproducedWitness ==
    /\ Returned("generate")
    /\ fed = SetToBag({<<3, 5, 10>>})
    /\ ret = <<3, 5, 10>>

(***************************************************************************)
(* C9  generate() and generate_from_token() only read: every step of a     *)
(* walk, its start, its return and its failure included, leaves start,     *)
(* end and the whole map as they are; the map changes in feed steps only.  *)
(***************************************************************************)
WalksAreReadOnly ==
    [][/\ (pc = "walk" \/ pc' = "walk") => UNCHANGED <<map, start, end>>
       /\ map' # map => fed' # fed]_vars

WalksAreReadOnlyWitness ==
    /\ pc = "panic" /\ op = "generate_from_token"
    /\ FedSeqs # {}

\* the number of positions of w at which b directly follows a
Occurrences(w, a, b) ==
    Cardinality({i \in 1..(Len(w) - 1) : w[i] = a /\ w[i + 1] = b})

RECURSIVE Followers(_, _, _)
Followers(seqs, a, b) ==
    IF seqs = {} THEN 0
    ELSE LET s == CHOOSE x \in seqs : TRUE
         IN  CopiesIn(s, fed) * Occurrences(<<start>> \o s \o <<end>>, a, b)
                 + Followers(seqs \ {s}, a, b)

RECURSIVE Recorded(_)
Recorded(seqs) ==
    IF seqs = {} THEN 0
    ELSE LET s == CHOOSE x \in seqs : TRUE
         IN  CopiesIn(s, fed) * (Len(s) + 1) + Recorded(seqs \ {s})

RECURSIVE Total(_, _)
Total(m, keys) ==
    IF keys = {} THEN 0
    ELSE LET k == CHOOSE x \in keys : TRUE
         IN  sum(m[k]) + Total(m, keys \ {k})

(***************************************************************************)
(* C10  For all tokens a and b the count of b in a's table is the number   *)
(* of positions at which b directly follows a in the non-empty fed         *)
(* sequences, each taken as [start, v1, .., vn, end]; b is absent from     *)
(* a's table exactly when that number is 0.  A non-empty feed of n tokens  *)
(* so records n + 1 transitions.                                           *)
(***************************************************************************)
CountsAreFollowers ==
    /\ \A a \in Tokens, b \in Tokens :
          /\ Count(map, a, b) = Followers(FedSeqs, a, b)
          /\ a \in DOMAIN map => (b \in DOMAIN map[a] <=> Followers(FedSeqs, a, b) > 0)
    /\ \A a \in DOMAIN map : DOMAIN map[a] \subseteq Tokens
    /\ Total(map, DOMAIN map) = Recorded(FedSeqs)

CountsAreFollowersWitness ==
    /\ op = "feed"
    /\ BagCardinality(fed) = 2
    /\ Count(map, 5, 5) = 2
    /\ Count(map, start, end) = 0

\* the random source: a token offered again and again is drawn in the end,
\* and a walk that has sampled end returns
Fairness ==
    /\ \A b \in Tokens : SF_vars(Sample(b))
    /\ WF_vars(Return)

LiveSpec == Spec /\ Fairness

\* the tokens reachable from those of from along transitions with a positive count
RECURSIVE Reach(_, _)
Reach(m, from) ==
    LET further == from \cup UNION {DOMAIN m[k] : k \in from \cap DOMAIN m}
    IN  IF further = from THEN from ELSE Reach(m, further)

\* a walk from a key is under way on a chain that was fed something non-empty
InFedWalk == pc = "walk" /\ FedSeqs # {} /\ curs \in DOMAIN map

(***************************************************************************)
(* C7  Once something non-empty was fed, every generate() and every        *)
(* generate_from_token(k) for a key k ends, provided a successor with a    *)
(* positive count that is offered again and again is sampled in the end.   *)
(***************************************************************************)
WalkTerminates ==
    /\ [](InFedWalk => end \in Reach(map, {curs}))
    /\ InFedWalk ~> (pc = "done")

WalkTerminatesWitness ==
    /\ pc = "done"
    /\ overflow
    /\ op = "generate_from_token"

(***************************************************************************)
(* C11  In every execution of new, feed, generate and generate_from_token  *)
(* the table handed to next() has a total count above 0: the empty         *)
(* distribution is never sampled.                                          *)
(***************************************************************************)
EmptyTableNeverSampled ==
    (pc = "walk" /\ curs # end /\ curs \in DOMAIN map) => sum(map[curs]) > 0

\* the running sum after the first i entries of order
RECURSIVE Cumulative(_, _, _)
Cumulative(tbl, order, i) ==
    IF i = 0 THEN 0 ELSE Cumulative(tbl, order, i - 1) + tbl[order[i]]

\* the first entry of order whose running sum exceeds the draw d
FirstExceeding(tbl, order, d) ==
    order[CHOOSE i \in 1..Len(order) :
            /\ Cumulative(tbl, order, i) > d
            /\ \A j \in 1..(i - 1) : Cumulative(tbl, order, j) <= d]

(***************************************************************************)
(* C12  For every table with a total above 0, every draw d in [0, total)   *)
(* and every iteration order, next() returns the first entry whose         *)
(* running sum exceeds d: always a key with a positive count, never the    *)
(* fall-through, and exactly count(k) of the draws select key k.           *)
(***************************************************************************)
SampleIsWeighted ==
    \A a \in DOMAIN map :
        LET tbl == map[a]
            total == sum(tbl)
        IN  total > 0 =>
              \A order \in Orders(DOMAIN tbl) :
                  /\ \A d \in 0..(total - 1) :
                        LET k == next(tbl, order, d)
                        IN  /\ k # Unreachable
                            /\ k \in DOMAIN tbl
                            /\ tbl[k] > 0
                            /\ k = FirstExceeding(tbl, order, d)
                  /\ \A k \in DOMAIN tbl :
                        Cardinality({d \in 0..(total - 1) : next(tbl, order, d) = k}) = tbl[k]

SampleIsWeightedWitness ==
    /\ pc = "walk" /\ ret # <<>>
    /\ \E a \in DOMAIN map : \E k1 \in DOMAIN map[a], k2 \in DOMAIN map[a] :
          /\ map[a][k1] < map[a][k2]
          /\ ret[Len(ret)] = k1 /\ curs = k1

(***************************************************************************)
(* C13  In every state, from construction on and after any feed or         *)
(* generate call, start and end are keys of the map.                       *)
(***************************************************************************)
SentinelsAreKeys == start \in DOMAIN map /\ end \in DOMAIN map

SentinelsAreKeysWitness ==
    /\ Returned("generate") /\ ret # <<>>
    /\ BagCardinality(fed) = MaxFeeds

\* the values that occur in the non-empty fed sequences
FedValues == UNION {Range(s) : s \in FedSeqs}

\* no successor of table t is lost or lowered in table u
KeepsTable(t, u) ==
    /\ DOMAIN t \subseteq DOMAIN u
    /\ \A b \in DOMAIN t : t[b] <= u[b]

\* nothing the map m holds is lost or lowered in n
Keeps(m, n) ==
    /\ DOMAIN m \subseteq DOMAIN n
    /\ \A k \in DOMAIN m : KeepsTable(m[k], n[k])

(***************************************************************************)
(* C14  The keys of the map are exactly start, end and the values of the   *)
(* non-empty fed sequences; feeding a value that is a key already, start   *)
(* or end included, adds no second key and does not reset its table.       *)
(***************************************************************************)
KeysAreFedValues ==
    /\ [](DOMAIN map = {start, end} \cup FedValues)
    /\ [][fed' # fed =>
            \A k \in DOMAIN map \cap Range(arg') : KeepsTable(map[k], map'[k])]_vars

KeysAreFedValuesWitness ==
    /\ op = "feed" /\ start # end
    /\ start \in Range(arg) /\ end \in FedValues
    /\ Cardinality(DOMAIN map) = 2
    /\ sum(map[start]) > 2

(***************************************************************************)
(* C15  The chain only accumulates: across every step, of feed, generate   *)
(* or generate_from_token, no key leaves the map, no successor leaves a    *)
(* table and no count goes down.                                           *)
(***************************************************************************)
ChainOnlyAccumulates == [][Keeps(map, map')]_vars

ChainOnlyAccumulatesWitness ==
    /\ op = "feed" /\ arg # <<>>
    /\ BagCardinality(fed) = MaxFeeds
    /\ \E k \in Range(arg) : sum(map[k]) > Len(arg) + 1

(***************************************************************************)
(* C16  Every count stored in every table is an integer of at least 1: no  *)
(* successor is kept with count 0.                                         *)
(***************************************************************************)
CountsArePositive ==
    \A k \in DOMAIN map : \A b \in DOMAIN map[k] : map[k][b] \in Nat /\ map[k][b] >= 1

CountsArePositiveWitness ==
    /\ op = "feed"
    /\ \E k \in DOMAIN map : \E b, c \in DOMAIN map[k] : map[k][b] = 1 /\ map[k][c] = 2

\* the map of a fresh chain with the same start and end after feed(s) alone
Alone(s) == feed(new(start, end), start, end, s)

\* the counts of b after a that the fed sequences of seqs produce, each alone
RECURSIVE SumAlone(_, _, _)
SumAlone(seqs, a, b) ==
    IF seqs = {} THEN 0
    ELSE LET s == CHOOSE x \in seqs : TRUE
         IN  CopiesIn(s, fed) * Count(Alone(s), a, b) + SumAlone(seqs \ {s}, a, b)

(***************************************************************************)
(* C17  Feeds add up whatever their order: feed(s1) then feed(s2) leaves   *)
(* the map that feed(s2) then feed(s1) leaves, every count is the sum of   *)
(* the counts each fed sequence produces alone on a fresh chain, and a     *)
(* sequence fed k times contributes k times its counts.                    *)
(***************************************************************************)
FeedsAddUp ==
    /\ \A a \in Tokens, b \in Tokens :
          Count(map, a, b) = SumAlone(BagToSet(fed), a, b)
    /\ Callable =>
          \A s1 \in FeedInputs, s2 \in FeedInputs :
              feed(feed(map, start, end, s1), start, end, s2)
                  = feed(feed(map, start, end, s2), start, end, s1)

FeedsAddUpWitness ==
    /\ op = "feed"
    /\ \E s \in FedSeqs : CopiesIn(s, fed) = MaxFeeds
    /\ \E a \in Tokens, b \in Tokens : Count(map, a, b) = 2 * MaxFeeds

(***************************************************************************)
(* C18  Once something non-empty was fed, every key other than end has a   *)
(* table with a total of at least 1 and end is reachable from it along     *)
(* positive counts; only end, and start before the first non-empty feed,   *)
(* can have an empty table.                                                *)
(***************************************************************************)
KeysLeadToEnd ==
    /\ FedSeqs # {} =>
          \A k \in DOMAIN map \ {end} :
              /\ sum(map[k]) >= 1
              /\ end \in Reach(map, {k})
    /\ \A k \in DOMAIN map :
          map[k] = EmptyTable => (k = end \/ (k = start /\ FedSeqs = {}))

KeysLeadToEndWitness ==
    /\ op = "feed"
    /\ map[end] = EmptyTable
    /\ \E k \in DOMAIN map \ {start, end} : k \in DOMAIN map[k]

\* the walk of generate() has pushed exactly the first elements of w so far
WalkedPartOf(w) ==
    /\ pc = "walk" /\ op = "generate" /\ ~overflow
    /\ Len(ret) <= Len(w)
    /\ ret = SubSeq(w, 1, Len(ret))

\* generate() can still return s: the call can start, from every part of
\* s \o <<end>> already pushed the draw can select the element that follows,
\* and once all of it is pushed the call returns s
CanReturn(s) ==
    LET w == s \o <<end>>
    IN  /\ Callable => ENABLED Generate
        /\ (WalkedPartOf(w) /\ Len(ret) < Len(w)) =>
              ENABLED (Sample(w[Len(ret) + 1]) /\ ret' = Append(ret, w[Len(ret) + 1]))
        /\ (WalkedPartOf(w) /\ Len(ret) = Len(w)) =>
              ENABLED (Return /\ ret' = s)

(***************************************************************************)
(* C19  Every non-empty sequence that was fed and holds no token equal to  *)
(* end stays a possible result of generate() after any further feeds.      *)
(* Stated first as claimed.                                                *)
(***************************************************************************)
FedSequenceStaysPossible ==
    \A s \in FedSeqs : end \notin Range(s) => CanReturn(s)

\* C19, for a chain whose start and end differ: every non-empty fed sequence
\* without a token equal to end stays a possible result of generate()
FedSequenceStaysPossibleFromStart ==
    start # end => \A s \in FedSeqs : end \notin Range(s) => CanReturn(s)

FedSequenceStaysPossibleFromStartWitness ==
    /\ Returned("generate")
    /\ fed = ExampleFed
    /\ ret = <<3, 5, 10>>

====
